---------------------------- MODULE Spec2Model ----------------------------
(***************************************************************************)
(* State-machine model of the pairing engine of the WhatsApp session       *)
(* generator: class PairingStrategies of src/src/Whatsapp/fallback-handler.js *)
(* (credential store, channel strategies, verification, attempt and rate   *)
(* counters), and of the fallback engine, class FallbackHandler of the     *)
(* same file (failure analysis, strategy selection, recovery actions and   *)
(* critical escalation).                                                   *)
(*                                                                         *)
(* Time is in seconds.  The three kinds of cache keys of the one NodeCache *)
(* instance (pairing_<session>_<method>, attempts_<session>_<method>,      *)
(* rate_<phone>_<method>, backup_<session>) are kept in four maps.         *)
(***************************************************************************)
EXTENDS Integers, Sequences, FiniteSets, TLC

VARIABLES
    now,            \* Date.now(), in seconds
    enabled,        \* strategies[m].enabled
    twilioClient,   \* this.twilioClient is set (TWILIO_* configured)
    emailTransporter,\* this.emailTransporter is set (SMTP_* configured)
    defaultEmail,   \* process.env.DEFAULT_EMAIL is set
    pairing,        \* cache entries pairing_<sessionId>_<method>
    attempts,       \* cache entries attempts_<sessionId>_<method>
    rate,           \* cache entries rate_<phone>_<method>
    backupStore,    \* cache entries backup_<sessionId>
    stats,          \* this.stats of PairingStrategies
    last,           \* the response of the last call (observation)
    wrongs,         \* history: mismatching verifies per key since its last issue
    allowedAt,      \* history: times of the allowed rate checks per (phone,
                    \* method) that are at most rateTTL seconds old
    fallbacks,      \* FallbackHandler: this.fallbacks, the three-tier catalog
    fstats,         \* FallbackHandler: this.stats
    freply,         \* the result of the last handleFallback call (observation)
    sessions,       \* SessionManager: this.sessions, sessionId -> session
    disk,           \* the session-info.json files under the sessions directory
    sstats,         \* SessionManager: this.stats
    loading,        \* loadSessions: the directories it has still to read
    response,       \* the response of the last request to the verify endpoint
    client          \* BaileysPro: connection flags, retryCount, pending timers

\* the state of the PairingStrategies instance and of the FallbackHandler instance
pvars == <<now, enabled, twilioClient, emailTransporter, defaultEmail,
           pairing, attempts, rate, backupStore, stats, last, wrongs,
           allowedAt>>
fvars == <<fallbacks, fstats, freply>>
\* the state of the SessionManager instance and the verify endpoint, and of
\* the BaileysPro instance
svars == <<sessions, disk, sstats, loading, response>>
cvars == <<client>>
vars == <<pvars, fvars, svars, cvars>>

-----------------------------------------------------------------------------
(* Bounds of the model *)

\* the clock advances in steps of TimeStep seconds, up to MaxTime
TimeStep == 310
MaxTime == 930
\* issue-and-verify: at most MaxIssues codes issued, MaxOutcomes submissions
MaxIssues == 3
MaxOutcomes == 5
\* fallback chains: requests start while fewer than MaxAttempts generation
\* attempts were made; at most MaxSubmits codes are verified
MaxAttempts == 2
MaxSubmits == 1
\* rate limit: at most MaxRateAttempts generate calls
MaxRateAttempts == 6
\* fallback engine: at most MaxFallbacks handleFallback calls
MaxFallbacks == 2
\* two sessions: at most MaxSessionCalls generation attempts and counted
\* submissions, until the clock reaches MaxSessionTime
MaxSessionCalls == 3
MaxSessionTime == 310
\* the rate window: the clock advances in steps of WindowStep seconds, up to
\* MaxWindowTime
WindowStep == 155
MaxWindowTime == 620
\* recovery codes: at most MaxRecoverIssues codes are requested
MaxRecoverIssues == 3

\* session store: at most MaxCreated sessions are loaded or created; the clock
\* advances in steps of StoreStep seconds, up to MaxStoreTime
MaxCreated == 3
StoreStep == 1500000
MaxStoreTime == 3000000
\* verify endpoint: at most MaxGenerated sessions are generated and
\* MaxRequests requests are made to the verify endpoint
MaxGenerated == 2
MaxRequests == 2
\* protocol client: at most MaxCloses 'close' events and MaxOpens 'open' events
MaxCloses == 5
MaxOpens == 2
-----------------------------------------------------------------------------
(* Program constants *)

\* new NodeCache({ stdTTL: 600, ... })
stdTTL == 600
\* new NodeCache({ ..., checkperiod: 60 })
checkperiod == 60
\* getAttemptsLeft: const maxAttempts = 3
maxAttempts == 3
\* getAttemptsLeft: this.cache.set(cacheKey, attempts + 1, 600)
attemptsTTL == 600
\* canAttemptPairing: if (attempts >= 5)
rateLimit == 5
\* canAttemptPairing: this.cache.set(rateKey, attempts + 1, 300)
rateTTL == 300

Sessions == {"WA_TEST1", "WA_TEST2"}
Phones == {"+15551234567", "+15557654321"}
\* the phone a session was created for (server.js: sessionData.phone)
PhoneOf(s) == IF s = "WA_TEST1" THEN "+15551234567" ELSE "+15557654321"

Methods == {"code", "sms", "call", "email", "backup"}
\* req.body.method is passed on unvalidated: "qr" stands for any other string
MethodInputs == Methods \cup {"qr"}
NoMethod == "none"
None == [none |-> TRUE]

\* this.strategies: priority and timeout of each method
strategies ==
    [code   |-> [priority |-> 1, timeout |-> 600],
     sms    |-> [priority |-> 2, timeout |-> 300],
     call   |-> [priority |-> 3, timeout |-> 300],
     email  |-> [priority |-> 4, timeout |-> 600],
     backup |-> [priority |-> 5, timeout |-> 0]]


-----------------------------------------------------------------------------
(* Codes are sequences of one-character strings. *)

DigitChars == {"0", "1", "2", "3", "4", "5", "6", "7", "8", "9"}
IsDigit(ch) == ch \in DigitChars

\* code.replace(/\D/g, ''): removes every character that is not a digit
StripNonDigits(code) == SelectSeq(code, IsDigit)

\* the codes the generators draw from (crypto.randomInt / crypto.randomBytes):
\* two 8-digit codes, two 6-digit codes, and three 12-character upper-case hex
\* codes of which the first two carry the same digits between different letters
CodeSamples(m) ==
    CASE m = "code" ->
           { <<"1","2","3","4","5","6","7","8">>,
             <<"8","7","6","5","4","3","2","1">> }
      [] m \in {"sms", "call", "email"} ->
           { <<"1","2","3","4","5","6">>,
             <<"6","5","4","3","2","1">> }
      [] m = "backup" ->
           { <<"A","1","B","2","C","3","D","4","E","5","F","6">>,
             <<"F","1","E","2","D","3","C","4","B","5","A","6">>,
             <<"0","9","8","7","6","5","4","3","2","1","0","0">> }
      [] OTHER -> {}

\* code.replace(/(\d{n})(\d{n})/, '$1-$2'): a dash goes into the middle of the
\* first run of 2n digits; a code without such a run is returned as it is
insertDash(code, n) ==
    LET runs == { i \in 1..(Len(code) - 2 * n + 1) :
                     \A k \in i..(i + 2 * n - 1) : IsDigit(code[k]) }
    IN  IF runs = {} THEN code
        ELSE LET i == CHOOSE r \in runs : \A o \in runs : r <= o
             IN  SubSeq(code, 1, i + n - 1) \o <<"-">>
                    \o SubSeq(code, i + n, Len(code))

\* code.match(/.{1,4}/g).join('-'), for a code that is not empty
RECURSIVE joinChunks(_)
joinChunks(code) ==
    IF Len(code) <= 4 THEN code
    ELSE SubSeq(code, 1, 4) \o <<"-">> \o joinChunks(SubSeq(code, 5, Len(code)))

\* (mutation of formatCode: every channel is formatted like sms)
formatCode_AllLikeSms(code, m) == insertDash(code, 3)

\* formatCode(code, method): 1234-5678, 123-456, ABCD-EF12-3456
formatCode(code, m) ==
    CASE m = "code" -> insertDash(code, 4)
      [] m \in {"sms", "call", "email"} -> insertDash(code, 3)
      [] m = "backup" -> joinChunks(code)
      [] OTHER -> code

\* what a client may submit for a method: a generated code, its display form,
\* or a code no generator of that method issued
SubmittedCodes(m) ==
    CodeSamples(m)
      \cup { formatCode(c, m) : c \in CodeSamples(m) }

-----------------------------------------------------------------------------
(* node-cache: an entry is [v, t]; t = 0 means no expiry. *)

\* NodeCache._check: an entry is expired when t # 0 and t < Date.now()
Expired(e) == e # None /\ e.t # 0 /\ e.t < now
\* NodeCache.get: the entry when it is live; undefined (None) otherwise, and
\* an expired entry it finds is deleted (deleteOnExpire)
CacheGet(e) == IF e = None \/ Expired(e) THEN None ELSE e
\* NodeCache.set(key, value, ttl): ttl 0 is "never", otherwise now + ttl
Expiry(ttl) == IF ttl = 0 THEN 0 ELSE now + ttl

-----------------------------------------------------------------------------
(* Channel strategies: generatePairingCode and tryFallbackMethod. *)

\* the sequence of the methods of S in ascending priority
RECURSIVE SortByPriority(_)
SortByPriority(S) ==
    IF S = {} THEN <<>>
    ELSE LET first == CHOOSE m \in S :
                        \A o \in S : strategies[m].priority <= strategies[o].priority
         IN  <<first>> \o SortByPriority(S \ {first})

\* getAlternativeMethods(currentMethod): the enabled methods of strictly greater
\* priority number, ascending; none for a method this.strategies does not know
\* (config.priority > undefined is false)
getAlternativeMethods(currentMethod) ==
    IF currentMethod \notin Methods THEN <<>>
    ELSE SortByPriority({ m \in Methods :
             /\ m # currentMethod
             /\ enabled[m]
             /\ strategies[m].priority > strategies[currentMethod].priority })

\* One generation attempt on method m succeeds: the strategy exists and is
\* enabled, and its generator does not throw.  down is the set of channels
\* whose delivery provider call fails during this request.
AttemptSucceeds(m, down) ==
    /\ m \in Methods
    /\ enabled[m]
    /\ CASE m = "code"   -> TRUE
         [] m = "sms"    -> twilioClient /\ "sms" \notin down
         [] m = "call"   -> twilioClient /\ "call" \notin down
         [] m = "email"  -> emailTransporter /\ defaultEmail /\ "email" \notin down
         [] m = "backup" -> TRUE

\* generatePairingCode(phone, sessionId, method) and tryFallbackMethod(phone,
\* sessionId, failedMethod) call each other; the result carries the sequence of
\* all generation attempts made (tried).
RECURSIVE generatePairingCodeRun(_, _)
RECURSIVE tryFallbackLoop(_, _, _, _, _)

\* (mutation of wrapFallback: the spread comes last, so an inner fallback's
\* originalMethod survives)
wrapFallback_SpreadLast(result, failedMethod) ==
    IF result.fallback THEN result
    ELSE [result EXCEPT !.fallback = TRUE, !.originalMethod = failedMethod]

\* (mutation of wrapFallback: the result names the failed method as its own)
wrapFallback_AsRequested(result, failedMethod) ==
    [result EXCEPT !.fallback = TRUE, !.originalMethod = failedMethod,
                   !.method = failedMethod]

\* { ...result, fallback: true, originalMethod: failedMethod }
wrapFallback(result, failedMethod) ==
    [result EXCEPT !.fallback = TRUE, !.originalMethod = failedMethod]

tryFallbackLoop(failedMethod, alternatives, i, down, tried) ==
    IF i > Len(alternatives)
    THEN [success |-> FALSE, error |-> "ALL_METHODS_FAILED", method |-> NoMethod,
          fallback |-> FALSE, originalMethod |-> failedMethod, tried |-> tried]
    ELSE LET result == generatePairingCodeRun(alternatives[i], down)
         IN  IF result.success
             THEN [wrapFallback(result, failedMethod) EXCEPT
                                 !.tried = tried \o result.tried]
             ELSE tryFallbackLoop(failedMethod, alternatives, i + 1, down,
                                  tried \o result.tried)

tryFallbackMethod(failedMethod, down) ==
    tryFallbackLoop(failedMethod, getAlternativeMethods(failedMethod), 1, down, <<>>)

generatePairingCodeRun(method, down) ==
    IF AttemptSucceeds(method, down)
    THEN [success |-> TRUE, error |-> "", method |-> method,
          fallback |-> FALSE, originalMethod |-> NoMethod, tried |-> <<method>>]
    ELSE LET result == tryFallbackMethod(method, down)
         IN  [result EXCEPT !.tried = <<method>> \o result.tried]

\* number of attempts on method m in a sequence of attempts
CountOf(m, tried) == Cardinality({ i \in 1..Len(tried) : tried[i] = m })

-----------------------------------------------------------------------------
(* Responses *)

NoCall ==
    [op |-> "none", sessionId |-> "", phone |-> "", method |-> NoMethod,
     success |-> FALSE, error |-> "", resMethod |-> NoMethod, code |-> <<>>,
     formattedCode |-> <<>>,
     fallback |-> FALSE, originalMethod |-> NoMethod, tried |-> <<>>,
     down |-> {}, attemptsLeft |-> -1, allowed |-> FALSE, retryAfter |-> -1]

Max(a, b) == IF a >= b THEN a ELSE b
\* Math.ceil(a / b) for b > 0
CeilDiv(a, b) == IF a >= 0 THEN (a + b - 1) \div b ELSE -((-a) \div b)

-----------------------------------------------------------------------------
(* FallbackHandler: the catalog. *)

\* a catalog entry; conditions or requires is the empty set where the source
\* gives none
Descriptor(id, priority, conditions, requires, action) ==
    [id |-> id, priority |-> priority, enabled |-> TRUE,
     conditions |-> conditions, requires |-> requires, action |-> action]

\* this.fallbacks as the constructor builds it
fallbacksShipped ==
    [automatic |->
       << Descriptor("method_rotation", 1,
                     {"code_failed", "sms_failed", "call_failed"}, {}, "rotate_method"),
          Descriptor("code_regeneration", 2, {"code_expired"}, {}, "regenerate_code"),
          Descriptor("session_refresh", 3,
                     {"session_stale", "connection_timeout"}, {}, "refresh_session") >>,
     manual |->
       << Descriptor("backup_codes", 4, {}, {"backup_code"}, "use_backup"),
          Descriptor("alternative_auth", 5, {},
                     {"email_access", "2fa_enabled"}, "alternative_auth"),
          Descriptor("support_intervention", 6, {},
                     {"support_available"}, "contact_support") >>,
     emergency |->
       << Descriptor("new_session", 7,
                     {"all_failed", "persistent_errors"}, {}, "create_new_session"),
          Descriptor("device_switch", 8, {"device_issues"}, {}, "switch_device"),
          Descriptor("time_delay", 9,
                     {"rate_limited", "server_issues"}, {}, "delayed_retry") >>]

\* The catalog is data of the instance.  Besides the shipped one: a catalog
\* without the manual tier, one with only the automatic tier, one in which the
\* first manual entry is switched off, and one whose emergency entry new_session
\* has the lowest priority number of all.
Catalogs ==
    { fallbacksShipped,
      [fallbacksShipped EXCEPT !.manual = <<>>],
      [fallbacksShipped EXCEPT !.manual = <<>>, !.emergency = <<>>],
      [fallbacksShipped EXCEPT !.manual[1].enabled = FALSE],
      [fallbacksShipped EXCEPT !.emergency[1].priority = 0] }

-----------------------------------------------------------------------------
(* FallbackHandler: failure analysis. *)

(* An error text is a set of phrases, written in lower case or in capitals *)
(* (upper).  No phrase of the vocabulary is part of another one, so a text *)
(* includes a pattern exactly when the pattern is one of its phrases.      *)
Vocabulary ==
    {"expired", "timeout", "stale", "invalid", "wrong", "mismatch",
     "rate limit", "too many", "connection", "network", "offline",
     "all methods", "failed", "blocked", "hello"}

TextPhrases ==
    { {w} : w \in Vocabulary } \cup
    { {}, {"invalid", "failed"}, {"expired", "network"}, {"timeout", "failed"} }

ErrorTexts ==
    { [phrases |-> P, upper |-> u, string |-> TRUE] :
         P \in TextPhrases, u \in BOOLEAN }

\* an error argument that is not a string (an Error object, undefined)
NotAString == [phrases |-> {}, upper |-> FALSE, string |-> FALSE]
ErrorInputs == ErrorTexts \cup {NotAString}

\* error.toLowerCase()
toLowerCase(error) == [error EXCEPT !.upper = FALSE]
\* error.includes(pattern): case-sensitive; every pattern is in lower case
includes(error, pattern) == ~error.upper /\ pattern \in error.phrases

\* classifyError: errorPatterns, in the order of Object.entries
errorPatterns ==
    << [type |-> "expired",      patterns |-> {"expired", "timeout", "old", "stale"}],
       [type |-> "invalid",      patterns |-> {"invalid", "wrong", "incorrect", "mismatch"}],
       [type |-> "rate_limited", patterns |-> {"rate limit", "too many", "attempts", "wait"}],
       [type |-> "network",      patterns |-> {"connection", "network", "timeout",
                                               "offline", "unreachable"}],
       [type |-> "server",       patterns |-> {"server", "internal", "500", "503", "service"}],
       [type |-> "device",       patterns |-> {"device", "phone", "sim", "number"}],
       [type |-> "permanent",    patterns |-> {"blocked", "banned", "suspended",
                                               "terminated"}] >>

\* classifyError(error): the type of the first entry one of whose patterns the
\* lower-cased text includes
classifyError(error) ==
    LET errorStr == toLowerCase(error)
        hits == { i \in 1..Len(errorPatterns) :
                     \E pattern \in errorPatterns[i].patterns : includes(errorStr, pattern) }
    IN  IF hits = {} THEN "unknown"
        ELSE errorPatterns[CHOOSE i \in hits : \A j \in hits : i <= j].type

\* Math.max applied to two severity names: both convert to NaN
NaN == "NaN"
MathMax(a, b) == NaN

\* the context argument: attempts and timeSinceStart (milliseconds)
AttemptCounts == {0, 3, 4, 10}
ElapsedTimes == {0, 300000, 300001}
Contexts == { [attempts |-> a, timeSinceStart |-> t] :
                 a \in AttemptCounts, t \in ElapsedTimes }

\* one if-block of analyzeError: when the text includes one of the keywords the
\* type and severity are overwritten and the conditions appended
analyzeStep(analysis, error, keywords, errorType, severity, conditions) ==
    IF \E k \in keywords : includes(error, k)
    THEN [analysis EXCEPT !.errorType = errorType, !.severity = severity,
                          !.conditions = @ \cup conditions]
    ELSE analysis

\* analyzeError(error, context), for a string error
analyzeError(error, context) ==
    LET a0 == [errorType |-> classifyError(error), severity |-> "low",
               conditions |-> {}]
        a1 == analyzeStep(a0, error, {"expired", "timeout"}, "expired", "medium",
                          {"code_expired", "session_stale"})
        a2 == analyzeStep(a1, error, {"invalid", "wrong"}, "invalid", "low",
                          {"code_failed"})
        a3 == analyzeStep(a2, error, {"rate limit", "too many"}, "rate_limited",
                          "high", {"rate_limited"})
        a4 == analyzeStep(a3, error, {"connection", "network"}, "network", "high",
                          {"connection_timeout", "server_issues"})
        a5 == analyzeStep(a4, error, {"all methods", "failed"}, "persistent",
                          "critical", {"all_failed", "persistent_errors"})
        a6 == IF context.attempts > 3
              THEN [a5 EXCEPT !.conditions = @ \cup {"multiple_attempts"},
                              !.severity = MathMax(@, "medium")]
              ELSE a5
    IN  IF context.timeSinceStart > 300000
        THEN [a6 EXCEPT !.conditions = @ \cup {"prolonged_issue"},
                        !.severity = MathMax(@, "high")]
        ELSE a6

-----------------------------------------------------------------------------
(* FallbackHandler: strategy selection. *)

\* matchesConditions(strategyConditions, errorConditions)
matchesConditions(strategyConditions, errorConditions) ==
    \/ strategyConditions = {}
    \/ strategyConditions \cap errorConditions # {}

\* (mutation of meetsRequirements: no requirement is taken as met)
meetsRequirements_Never(requirements, analysis) == requirements = {}

\* meetsRequirements(requirements, analysis): every branch returns true
meetsRequirements(requirements, analysis) == TRUE

\* { ...fallback, type: type, priority: fallback.priority }
WithType(fallback, type) ==
    [id |-> fallback.id, priority |-> fallback.priority,
     enabled |-> fallback.enabled, conditions |-> fallback.conditions,
     requires |-> fallback.requires, action |-> fallback.action, type |-> type]

\* the entries of a tier that pass its test, in catalog order, tagged
tierCandidates(catalog, analysis, type) ==
    LET passes(f) == IF type = "manual"
                     THEN meetsRequirements(f.requires, analysis)
                     ELSE matchesConditions(f.conditions, analysis.conditions)
        kept == SelectSeq(catalog[type], passes)
    IN  [i \in 1..Len(kept) |-> WithType(kept[i], type)]

\* (mutation of candidateStrategies: every tier is collected whatever the
\* severity)
candidateStrategies_NoGate(catalog, analysis) ==
    tierCandidates(catalog, analysis, "automatic")
      \o tierCandidates(catalog, analysis, "manual")
      \o tierCandidates(catalog, analysis, "emergency")

\* the array strategies of selectStrategy before it is sorted
candidateStrategies(catalog, analysis) ==
    tierCandidates(catalog, analysis, "automatic")
      \o (IF analysis.severity \in {"high", "critical"}
          THEN tierCandidates(catalog, analysis, "manual") ELSE <<>>)
      \o (IF analysis.severity = "critical"
          THEN tierCandidates(catalog, analysis, "emergency") ELSE <<>>)

\* (mutation of sortedFirst: the candidates are not sorted)
sortedFirst_Unsorted(candidates) == candidates[1]

\* strategies.sort((a, b) => a.priority - b.priority)[0]: the sort is stable,
\* so the head is the earliest candidate of least priority number
sortedFirst(candidates) ==
    LET least == { i \in 1..Len(candidates) :
                      \A j \in 1..Len(candidates) :
                          candidates[i].priority <= candidates[j].priority }
    IN  candidates[CHOOSE i \in least : \A j \in least : i <= j]

\* (mutation of selectStrategyIn: without a candidate the first automatic entry
\* is returned)
selectStrategyIn_FirstWhenNone(catalog, analysis) ==
    LET candidates == candidateStrategies(catalog, analysis)
    IN  IF Len(candidates) > 0 THEN sortedFirst(candidates)
        ELSE WithType(catalog.automatic[1], "automatic")

\* selectStrategy(analysis); None is null
selectStrategyIn(catalog, analysis) ==
    LET candidates == candidateStrategies(catalog, analysis)
    IN  IF Len(candidates) > 0 THEN sortedFirst(candidates) ELSE None

selectStrategy(analysis) == selectStrategyIn(fallbacks, analysis)

-----------------------------------------------------------------------------
(* FallbackHandler: recovery actions, critical escalation, handleFallback. *)

(* How one run of a recovery action ends.  As shipped every action returns *)
(* success: true; the outcome is an input of the call, so that the paths   *)
(* handleFallback and handleCriticalFallback have for an action that       *)
(* returns success: false or throws are taken as well.                     *)
Outcomes == {"ok", "fail", "throw"}

\* executeStrategy: the method the switch dispatches an action tag to
actionMethod ==
    [rotate_method      |-> "rotateMethod",
     regenerate_code    |-> "regenerateCode",
     refresh_session    |-> "refreshSession",
     use_backup         |-> "useBackupCode",
     alternative_auth   |-> "alternativeAuth",
     contact_support    |-> "contactSupport",
     create_new_session |-> "createNewSession",
     switch_device      |-> "switchDevice",
     delayed_retry      |-> "delayedRetry"]

\* the result object of a recovery action that did not throw
actionResult(method, outcome) ==
    [success |-> outcome = "ok",
     method |-> method,
     ticketId |-> outcome = "ok" /\ method = "contactSupport",
     newSessionId |-> outcome = "ok" /\ method \in {"refreshSession", "createNewSession"}]

\* Array.prototype.indexOf, zero-based; -1 when the value is not in the array
indexOf(array, value) ==
    IF \E i \in 1..Len(array) : array[i] = value
    THEN (CHOOSE i \in 1..Len(array) :
             array[i] = value /\ \A j \in 1..(i - 1) : array[j] # value) - 1
    ELSE -1

\* rotateMethod(params): the method after context.method || 'code' in the
\* list ['sms', 'call', 'email', 'backup']
rotateMethod(context) ==
    LET methods == <<"sms", "call", "email", "backup">>
        currentMethod == IF context.method = NoMethod THEN "code" ELSE context.method
        currentIndex == indexOf(methods, currentMethod)
        nextMethod == methods[((currentIndex + 1) % Len(methods)) + 1]
    IN  [success |-> TRUE, action |-> "method_rotated", newMethod |-> nextMethod]

\* regenerateCode(params): newCode is crypto.randomInt(100000, 999999); the
\* code is returned, and nothing is stored
regenerateCode(newCode) ==
    [success |-> TRUE, action |-> "code_regenerated", newCode |-> newCode,
     formattedCode |-> insertDash(newCode, 3), expiresIn |-> 300]

\* useBackupCode(params): backupCode is crypto.randomBytes(8) in upper-case
\* hex; the code is returned, and nothing is stored
useBackupCode(backupCode) ==
    [success |-> TRUE, action |-> "backup_code_generated",
     backupCode |-> backupCode, formattedCode |-> joinChunks(backupCode),
     permanent |-> TRUE]

\* (mutation of delayMinutesOf: the default delay for every severity)
delayMinutesOf_Default(severity) == 5

\* delayedRetry: the switch on analysis.severity
delayMinutesOf(severity) ==
    CASE severity = "low" -> 1
      [] severity = "medium" -> 5
      [] severity = "high" -> 15
      [] severity = "critical" -> 60
      [] OTHER -> 5

\* delayedRetry(params): retryTime is Date.now() + delayMinutes * 60 * 1000
\* (here in seconds)
delayedRetry(analysis) ==
    [success |-> TRUE, action |-> "delayed_retry_scheduled",
     delayMinutes |-> delayMinutesOf(analysis.severity),
     retryTime |-> now + delayMinutesOf(analysis.severity) * 60]

\* handleCriticalFallback: emergencyActions sorted by priority
emergencyActions ==
    << [action |-> "force_new_session",  priority |-> 1, execute |-> "createNewSession"],
       [action |-> "support_escalation", priority |-> 2, execute |-> "contactSupport"],
       [action |-> "system_reset",       priority |-> 3, execute |-> "systemReset"] >>

\* the result of the last handleFallback call, with what the call was given
\* (error, context, exec, esc) and the recovery methods it ran (executed)
NoFallbackCall ==
    [op |-> "none", sessionId |-> "", error |-> NotAString,
     context |-> [attempts |-> 0, timeSinceStart |-> 0],
     exec |-> "ok", esc |-> <<"ok", "ok", "ok">>,
     success |-> FALSE, errorCode |-> "", strategy |-> None, result |-> None,
     analysis |-> None, emergency |-> FALSE, action |-> "",
     supportContact |-> FALSE, executed |-> <<>>]

\* the loop of handleCriticalFallback from the i-th emergency action on; esc[i]
\* is how that action ends
RECURSIVE criticalLoop(_, _, _)
criticalLoop(reply, esc, i) ==
    IF i > Len(emergencyActions)
    THEN [reply EXCEPT !.success = FALSE, !.errorCode = "CRITICAL_FAILURE",
                       !.supportContact = TRUE]
    ELSE LET ran == [reply EXCEPT !.executed = @ \o <<emergencyActions[i].execute>>]
         IN  IF esc[i] = "ok"
             THEN [ran EXCEPT !.success = TRUE, !.emergency = TRUE,
                              !.action = emergencyActions[i].action,
                              !.result = actionResult(emergencyActions[i].execute, "ok")]
             ELSE criticalLoop(ran, esc, i + 1)

\* (mutation of handleCriticalFallback: the escalation starts at the support
\* ticket)
handleCriticalFallback_SupportFirst(reply, esc) == criticalLoop(reply, esc, 2)

\* (mutation of handleCriticalFallback: when the three actions have failed
\* the escalation is run once more)
handleCriticalFallback_Again(reply, esc) ==
    LET first == criticalLoop(reply, esc, 1)
    IN  IF first.success THEN first ELSE criticalLoop(first, esc, 1)

\* handleCriticalFallback(sessionId, phone, error, context)
handleCriticalFallback(reply, esc) == criticalLoop(reply, esc, 1)

\* handleFallback(sessionId, phone, error, context); exec is how the action of
\* the selected strategy ends, esc how the three emergency actions end
handleFallback(sessionId, error, context, exec, esc) ==
  /\ UNCHANGED <<pvars, fallbacks>>
  /\
    LET call == [NoFallbackCall EXCEPT
                    !.op = "handleFallback", !.sessionId = sessionId,
                    !.error = error, !.context = context,
                    !.exec = exec, !.esc = esc]
        caught == [call EXCEPT !.errorCode = "FALLBACK_HANDLER_ERROR"]
        counted == [fstats EXCEPT !.totalFallbacks = @ + 1]
    IN  IF ~error.string
        THEN \* analyzeError throws a TypeError
             /\ fstats' = counted
             /\ freply' = caught
        ELSE
          LET analysis == analyzeError(error, context)
              strategy == selectStrategy(analysis)
          IN  IF strategy = None
              THEN /\ fstats' = counted
                   /\ freply' = [call EXCEPT !.errorCode = "NO_FALLBACK_AVAILABLE"]
              ELSE
                LET method == actionMethod[strategy.action]
                    ran == [call EXCEPT !.executed = <<method>>]
                    timed == [counted EXCEPT
                                !.responseTimes = @ + 1,
                                !.byType[strategy.type] = @ + 1]
                    returned == [ran EXCEPT
                                   !.success = (exec = "ok"),
                                   !.strategy = strategy,
                                   !.result = actionResult(method, exec),
                                   !.analysis = analysis]
                IN  CASE exec = "throw" ->
                           /\ fstats' = counted
                           /\ freply' = [caught EXCEPT !.executed = <<method>>]
                      [] exec = "ok" ->
                           /\ fstats' = [timed EXCEPT !.successfulFallbacks = @ + 1]
                           /\ freply' = returned
                      [] exec = "fail" ->
                           /\ fstats' = [timed EXCEPT !.failedFallbacks = @ + 1]
                           /\ freply' = IF analysis.severity = "critical"
                                        THEN handleCriticalFallback(ran, esc)
                                        ELSE returned


\* Math.round(a / b * 100), for b > 0
RoundPercent(a, b) == (200 * a + b) \div (2 * b)

\* (mutation of successRate: the ratio is scaled to thousandths)
successRate_PerMille(st) ==
    IF st.totalFallbacks > 0
    THEN 10 * RoundPercent(st.successfulFallbacks, st.totalFallbacks)
    ELSE 0

\* getStatus: successRate
successRate(st) ==
    IF st.totalFallbacks > 0
    THEN RoundPercent(st.successfulFallbacks, st.totalFallbacks)
    ELSE 0

\* getAvailableFallbacks: the enabled entries of a tier
availableOf(type) ==
    Cardinality({ i \in 1..Len(fallbacks[type]) : fallbacks[type][i].enabled })

\* (mutation of getStatus: reading the status starts the statistics afresh)
getStatus_ResetsStats ==
    /\ freply' = [NoFallbackCall EXCEPT
                     !.op = "getStatus", !.error = freply.error,
                     !.context = freply.context,
                     !.result = [stats |-> fstats, successRate |-> successRate(fstats)]]
    /\ fstats' = [fstats EXCEPT !.totalFallbacks = 0, !.successfulFallbacks = 0,
                                !.failedFallbacks = 0, !.responseTimes = 0]
    /\ UNCHANGED <<pvars, fallbacks>>

\* getStatus(): the counts of the enabled entries, the statistics and the
\* success rate (the response times are kept as a number of samples, so the
\* average is not part of the result here)
getStatus ==
    /\ freply' = [NoFallbackCall EXCEPT
                     !.op = "getStatus", !.error = freply.error,
                     !.context = freply.context,
                     !.result =
                         [totalFallbacks |-> availableOf("automatic")
                                               + availableOf("manual")
                                               + availableOf("emergency"),
                          byType |-> [automatic |-> availableOf("automatic"),
                                      manual |-> availableOf("manual"),
                                      emergency |-> availableOf("emergency")],
                          stats |-> fstats,
                          successRate |-> successRate(fstats)]]
    /\ UNCHANGED <<pvars, fallbacks, fstats>>

-----------------------------------------------------------------------------
(* Initial state: the constructor.  The cache is empty and the statistics  *)
(* are zero; which provider is configured comes from the environment.      *)

AllEnabled == [m \in Methods |-> TRUE]
\* strategies[m].enabled is true for every method as shipped; the flag is
\* configuration, so configurations with one method switched off are included
EnabledConfigs ==
    { AllEnabled,
      [AllEnabled EXCEPT !["backup"] = FALSE],
      [AllEnabled EXCEPT !["code"] = FALSE] }

-----------------------------------------------------------------------------
(* SessionManager *)

\* 30 * 24 * 60 * 60 * 1000 milliseconds, in seconds
sessionTTL == 30 * 24 * 60 * 60

\* no entry under a session id (Map.get gives undefined), no file on disk
NoSession == [status |-> "none", expiresAt |-> 0]

\* this.stats as the constructor of SessionManager sets it
NoSessionStats ==
    [totalCreated |-> 0, totalDeleted |-> 0, activeSessions |-> 0,
     expiredSessions |-> 0, errors |-> 0]

\* isSessionExpired(session)
isSessionExpired(session) == session.expiresAt # 0 /\ now > session.expiresAt

\* this.sessions.size
sessionCount(held) == Cardinality({s \in Sessions : held[s] # NoSession})

\* getSession(sessionId): the cache holds copies of entries of this.sessions
\* (set by createSession, getSession and updateSession, removed by
\* deleteSession), so the lookup gives the entry of this.sessions
getSession(sessionId) == sessions[sessionId]

\* deleteSession and cleanupExpiredSessions work on the store: a record of
\* this.sessions, the files on disk and this.stats
\* deleteSession(sessionId): an unknown id changes nothing; a known one is
\* removed from memory and disk, activeSessions--, totalDeleted++
deleteSession(store, sessionId) ==
    IF store.sessions[sessionId] = NoSession
    THEN store
    ELSE [sessions |-> [store.sessions EXCEPT ![sessionId] = NoSession],
          disk |-> [store.disk EXCEPT ![sessionId] = NoSession],
          stats |-> [store.stats EXCEPT !.activeSessions = @ - 1,
                                        !.totalDeleted = @ + 1]]

RECURSIVE deleteEach(_, _)
\* the loop of cleanupExpiredSessions over the expired sessions
deleteEach(store, ids) ==
    IF ids = {}
    THEN store
    ELSE LET s == CHOOSE x \in ids : TRUE
         IN  deleteEach(deleteSession(store, s), ids \ {s})

\* cleanupExpiredSessions(): deleteSession for every session that has expired
cleanupExpiredSessions(store) ==
    deleteEach(store, {s \in Sessions : /\ store.sessions[s] # NoSession
                                        /\ isSessionExpired(store.sessions[s])})

\* no request to the verify endpoint was made; request is history: the number
\* of requests the endpoint has handled
NoResponse ==
    [op |-> "none", sessionId |-> "", code |-> "", method |-> "",
     status |-> 0, error |-> "", verified |-> FALSE, connection |-> "none",
     request |-> 0]

-----------------------------------------------------------------------------
(* BaileysPro *)

\* options.maxRetries as the constructor sets it
maxRetries == 3
\* DisconnectReason.loggedOut
loggedOut == "loggedOut"

\* the instance as the constructor builds it; closes, sinceOpen and event are
\* history: the 'close' events handled, the reconnects scheduled since the
\* last 'open', the last connection update
NewClient ==
    [isConnected |-> FALSE, isConnecting |-> FALSE, retryCount |-> 0,
     timers |-> 0, reconnects |-> 0, errors |-> 0,
     closes |-> 0, sinceOpen |-> 0,
     event |-> [connection |-> "none", statusCode |-> "undefined",
                scheduled |-> FALSE]]

\* the session store is empty, nothing is on disk, no request was made and the
\* protocol client is as constructed
ServerIdle ==
    /\ sessions = [s \in Sessions |-> NoSession]
    /\ disk = [s \in Sessions |-> NoSession]
    /\ sstats = NoSessionStats
    /\ loading = {}
    /\ response = NoResponse
    /\ client = NewClient

\* what the two constructors build: empty caches and zeroed statistics
Constructed ==
    /\ now = 0
    /\ pairing = [s \in Sessions |-> [m \in Methods |-> None]]
    /\ attempts = [s \in Sessions |-> [m \in Methods |-> None]]
    /\ rate = [p \in Phones |-> [m \in Methods |-> None]]
    /\ backupStore = [s \in Sessions |-> None]
    /\ stats = [totalAttempts |-> 0, successful |-> 0, failed |-> 0,
                byMethod |-> [m \in MethodInputs |-> 0], fallbacksUsed |-> 0]
    /\ wrongs = [s \in Sessions |-> [m \in Methods |-> 0]]
    /\ allowedAt = [p \in Phones |-> [m \in Methods |-> <<>>]]
    /\ fstats = [totalFallbacks |-> 0, successfulFallbacks |-> 0,
                 failedFallbacks |-> 0,
                 byType |-> [automatic |-> 0, manual |-> 0, emergency |-> 0],
                 responseTimes |-> 0]

\* the flags, providers and catalog as shipped, every provider configured
ShippedConfigured ==
    /\ enabled = AllEnabled
    /\ twilioClient = TRUE /\ emailTransporter = TRUE /\ defaultEmail = TRUE
    /\ fallbacks = fallbacksShipped

Init ==
    /\ ServerIdle
    /\ enabled \in EnabledConfigs
    /\ twilioClient \in BOOLEAN
    /\ emailTransporter \in BOOLEAN
    /\ defaultEmail \in BOOLEAN
    /\ fallbacks \in Catalogs
    /\ Constructed
    /\ last = NoCall
    /\ freply = NoFallbackCall

config == <<enabled, twilioClient, emailTransporter, defaultEmail>>

-----------------------------------------------------------------------------
(* Operations *)

\* the cache entry generatePairingCode stores for a generated code
PairingEntry(phone, sessionId, method, code) ==
    [code |-> code, phone |-> phone, sessionId |-> sessionId, method |-> method,
     generatedAt |-> now,
     expiresAt |-> now + strategies[method].timeout,
     t |-> Expiry(stdTTL)]

\* storeBackupCode(sessionId, code): this.cache.set(backupKey, code, 0)
storeBackupCode(code) == [v |-> code, t |-> Expiry(0)]

\* generatePairingCode(phone, sessionId, method), with every attempt that
\* tryFallbackMethod makes for it
generatePairingCode(phone, sessionId, method, down) ==
    \E result \in {generatePairingCodeRun(method, down)} :
    LET failedAttempts == Len(result.tried) - (IF result.success THEN 1 ELSE 0)
    IN  \E code \in (IF result.success THEN CodeSamples(result.method) ELSE {<<>>}) :
          /\ pairing' = IF result.success
                        THEN [pairing EXCEPT ![sessionId][result.method] =
                                PairingEntry(phone, sessionId, result.method, code)]
                        ELSE pairing
          /\ backupStore' = IF result.success /\ result.method = "backup"
                            THEN [backupStore EXCEPT ![sessionId] = storeBackupCode(code)]
                            ELSE backupStore
          /\ stats' = [stats EXCEPT
                         !.totalAttempts = @ + Len(result.tried),
                         !.failed = @ + failedAttempts,
                         !.fallbacksUsed = @ + failedAttempts,
                         !.byMethod = [m \in MethodInputs |->
                                          @[m] + CountOf(m, result.tried)]]
          /\ wrongs' = IF result.success
                       THEN [wrongs EXCEPT ![sessionId][result.method] = 0]
                       ELSE wrongs
          /\ last' = [NoCall EXCEPT
                         !.op = "generate", !.sessionId = sessionId,
                         !.phone = phone, !.method = method,
                         !.success = result.success, !.error = result.error,
                         !.resMethod = result.method, !.code = code,
                         !.formattedCode = IF result.success
                                           THEN formatCode(code, result.method)
                                           ELSE <<>>,
                         !.fallback = result.fallback,
                         !.originalMethod = result.originalMethod,
                         !.tried = result.tried, !.down = down]
          /\ UNCHANGED <<now, config, attempts, rate, allowedAt, fvars>>

\* getAttemptsLeft(sessionId, method): the value it returns ...
getAttemptsLeft(e) ==
    LET count == IF CacheGet(e) = None THEN 0 ELSE CacheGet(e).v
    IN  Max(0, maxAttempts - count)

\* ... and the attempts entry it leaves
getAttemptsLeftStore(e) ==
    LET count == IF CacheGet(e) = None THEN 0 ELSE CacheGet(e).v
    IN  IF maxAttempts - count > 0
        THEN [v |-> count + 1, t |-> Expiry(attemptsTTL)]
        ELSE CacheGet(e)

\* (mutation of verifyOutcome: a missing entry is treated as a wrong code)
verifyOutcome_MissingIsInvalid(sessionId, code, method) ==
    LET pairingData == CacheGet(pairing[sessionId][method])
    IN  IF pairingData = None THEN "INVALID_CODE"
        ELSE IF StripNonDigits(code) # StripNonDigits(pairingData.code)
             THEN "INVALID_CODE"
             ELSE "OK"

\* the outcome of verifyPairingCode(sessionId, code, method) in this state
verifyOutcome(sessionId, code, method) ==
    LET pairingData == CacheGet(pairing[sessionId][method])
    IN  IF pairingData = None THEN "CODE_EXPIRED"
        ELSE IF StripNonDigits(code) # StripNonDigits(pairingData.code)
             THEN "INVALID_CODE"
             ELSE "OK"

\* (mutation of delCredential: the verified code stays in the cache)
delCredential_Kept(p, sessionId, method) == p

\* (mutation of delCredential: the codes of the method are removed in every
\* session)
delCredential_EverySession(p, sessionId, method) ==
    [s \in Sessions |-> [p[s] EXCEPT ![method] = None]]

\* (mutation of delCredential: only a verified backup code is removed)
delCredential_BackupOnly(p, sessionId, method) ==
    IF method = "backup" THEN [p EXCEPT ![sessionId][method] = None] ELSE p

\* this.cache.del(cacheKey): a verified code is removed
delCredential(p, sessionId, method) == [p EXCEPT ![sessionId][method] = None]

\* the INVALID_CODE branch returns without touching the pairing entry
afterMismatch(p, sessionId, method) == p

verifyPairingCode(sessionId, code, method) ==
    LET outcome == verifyOutcome(sessionId, code, method)
        reply == [NoCall EXCEPT !.op = "verify", !.sessionId = sessionId,
                                !.method = method]
    IN  /\ CASE outcome = "CODE_EXPIRED" ->
                  /\ pairing' = [pairing EXCEPT ![sessionId][method] = None]
                  /\ last' = [reply EXCEPT !.error = "CODE_EXPIRED"]
                  /\ UNCHANGED <<attempts, stats, wrongs>>
             [] outcome = "INVALID_CODE" ->
                  /\ stats' = [stats EXCEPT !.failed = @ + 1]
                  /\ attempts' = [attempts EXCEPT ![sessionId][method] =
                                     getAttemptsLeftStore(@)]
                  /\ last' = [reply EXCEPT
                                 !.error = "INVALID_CODE",
                                 !.attemptsLeft =
                                     getAttemptsLeft(attempts[sessionId][method])]
                  /\ wrongs' = [wrongs EXCEPT ![sessionId][method] = @ + 1]
                  /\ pairing' = afterMismatch(pairing, sessionId, method)
             [] outcome = "OK" ->
                  /\ pairing' = delCredential(pairing, sessionId, method)
                  /\ stats' = [stats EXCEPT !.successful = @ + 1]
                  /\ last' = [reply EXCEPT
                                 !.success = TRUE,
                                 !.resMethod = method,
                                 !.phone = pairing[sessionId][method].phone]
                  /\ UNCHANGED <<attempts, wrongs>>
        /\ UNCHANGED <<now, config, rate, backupStore, allowedAt, fvars>>

\* canAttemptPairing(phone, method)
canAttemptPairing(phone, method) ==
    LET entry == CacheGet(rate[phone][method])
        count == IF entry = None THEN 0 ELSE entry.v
        reply == [NoCall EXCEPT !.op = "canAttempt", !.phone = phone,
                                !.method = method]
    IN  /\ IF count >= rateLimit
           THEN /\ last' = [reply EXCEPT
                               !.allowed = FALSE, !.error = "RATE_LIMITED",
                               !.retryAfter = CeilDiv(entry.t - now, 60)]
                /\ UNCHANGED <<rate, allowedAt>>
           ELSE /\ rate' = [rate EXCEPT ![phone][method] =
                               [v |-> count + 1, t |-> Expiry(rateTTL)]]
                /\ last' = [reply EXCEPT !.allowed = TRUE, !.success = TRUE]
                /\ allowedAt' = [allowedAt EXCEPT ![phone][method] =
                                    Append(@, now)]
        /\ UNCHANGED <<now, config, pairing, attempts, backupStore, stats, wrongs, fvars>>

\* NodeCache._checkData, run every checkperiod seconds: deletes the entries
\* that have expired by the time of the run
Swept(e, at) == IF e # None /\ e.t # 0 /\ e.t < at THEN None ELSE e

\* Wall-clock time passes; the periodic checks that fall due meanwhile run, the
\* last of them at the latest multiple of checkperiod.
Advance(step, limit) ==
    LET lastCheck == ((now + step) \div checkperiod) * checkperiod
    IN  /\ now + step <= limit
        /\ now' = now + step
        /\ pairing' = [s \in Sessions |-> [m \in Methods |->
                          Swept(pairing[s][m], lastCheck)]]
        /\ attempts' = [s \in Sessions |-> [m \in Methods |->
                          Swept(attempts[s][m], lastCheck)]]
        /\ rate' = [p \in Phones |-> [m \in Methods |->
                          Swept(rate[p][m], lastCheck)]]
        /\ backupStore' = [s \in Sessions |-> Swept(backupStore[s], lastCheck)]
        /\ last' = NoCall
        /\ allowedAt' = [p \in Phones |-> [m \in Methods |->
                            SelectSeq(allowedAt[p][m],
                                      LAMBDA t : now + step - t <= rateTTL)]]
        /\ UNCHANGED <<config, stats, wrongs, fvars>>

Tick == Advance(TimeStep, MaxTime) /\ UNCHANGED <<svars, cvars>>

-----------------------------------------------------------------------------
(* Specifications *)

DeliveryChannels == {"sms", "call", "email"}

\* the shipped configuration with every delivery provider configured
InitConfigured ==
    /\ Init
    /\ enabled = AllEnabled
    /\ twilioClient /\ emailTransporter /\ defaultEmail
    /\ fallbacks = fallbacksShipped

\* every configuration of the pairing engine, with the shipped catalog
InitPairing == Init /\ fallbacks = fallbacksShipped

TestSession == "WA_TEST1"

(* Issue and verify: codes are issued for one session's key, submitted and *)
(* left to expire.  A behaviour stays on the channel it first issued on;   *)
(* every channel is the channel of some behaviour.                          *)
OnlyChannel(m) == \A o \in MethodInputs \ {m} : stats.byMethod[o] = 0

Issue ==
    \E m \in Methods :
        /\ UNCHANGED <<svars, cvars>>
        /\ OnlyChannel(m)
        /\ stats.totalAttempts < MaxIssues
        /\ generatePairingCode(PhoneOf(TestSession), TestSession, m, {})

Verify ==
    \E m \in Methods :
      \E c \in SubmittedCodes(m) :
        /\ UNCHANGED <<svars, cvars>>
        /\ OnlyChannel(m)
        /\ stats.successful + stats.failed < MaxOutcomes
        /\ verifyPairingCode(TestSession, c, m)

NextVerify == Issue \/ Verify \/ Tick

SpecVerify == InitConfigured /\ [][NextVerify]_vars

(* Fallback chains: one session requests codes on any method, in every     *)
(* configuration, with any set of delivery providers failing.              *)
Request ==
    \E m \in MethodInputs, down \in SUBSET DeliveryChannels :
        /\ UNCHANGED <<svars, cvars>>
        /\ stats.totalAttempts < MaxAttempts
        /\ generatePairingCode(PhoneOf(TestSession), TestSession, m, down)

Submit ==
    \E m \in Methods :
      \E c \in SubmittedCodes(m) :
        /\ UNCHANGED <<svars, cvars>>
        /\ stats.successful < MaxSubmits
        /\ verifyOutcome(TestSession, c, m) = "OK"
        /\ verifyPairingCode(TestSession, c, m)

NextGenerate == Request \/ Submit

SpecGenerate == InitPairing /\ [][NextGenerate]_vars

(* Rate limit: generate calls and canAttemptPairing calls for one phone on *)
(* the primary channel.                                                    *)
RateIssue ==
    /\ UNCHANGED <<svars, cvars>>
    /\ stats.totalAttempts < MaxRateAttempts
    /\ generatePairingCode(PhoneOf(TestSession), TestSession, "code", {})

RateCheck == \E p \in Phones : canAttemptPairing(p, "code") /\ UNCHANGED <<svars, cvars>>

NextRate == RateIssue \/ RateCheck \/ Tick

SpecRate == InitConfigured /\ [][NextRate]_vars

(* Rate window: rate checks for the phones on the primary channel, with    *)
(* the clock advancing in steps shorter than the window.                   *)
WindowCheck == \E p \in Phones : canAttemptPairing(p, "code") /\ UNCHANGED <<svars, cvars>>

WindowTick == Advance(WindowStep, MaxWindowTime) /\ UNCHANGED <<svars, cvars>>

NextWindow == WindowCheck \/ WindowTick

SpecWindow == InitConfigured /\ [][NextWindow]_vars

(* Fallback engine: handleFallback is called for one failure signal (an    *)
(* error text and a context, drawn at the start), once or again, with every *)
(* way the recovery actions may end, in every catalog.                      *)
InitFallback ==
    /\ ServerIdle
    /\ enabled = AllEnabled
    /\ twilioClient = TRUE /\ emailTransporter = TRUE /\ defaultEmail = TRUE
    /\ fallbacks \in Catalogs
    /\ Constructed
    /\ last = NoCall
    /\ \E error \in ErrorInputs, context \in Contexts :
          freply = [NoFallbackCall EXCEPT !.error = error, !.context = context]

\* how the emergency actions end matters only to a call that reaches them: the
\* action failed and the severity is critical
EscOutcomes(error, context, exec) ==
    IF /\ exec = "fail"
       /\ error.string
       /\ analyzeError(error, context).severity = "critical"
    THEN [1..3 -> Outcomes]
    ELSE { <<"ok", "ok", "ok">> }

Fallback ==
    \E exec \in Outcomes :
      \E esc \in EscOutcomes(freply.error, freply.context, exec) :
        /\ UNCHANGED <<svars, cvars>>
        /\ fstats.totalFallbacks < MaxFallbacks
        /\ handleFallback(TestSession, freply.error, freply.context, exec, esc)

NextFallback == Fallback

SpecFallback == InitFallback /\ [][NextFallback]_vars

(* Statistics: handleFallback calls on the shipped catalog and getStatus   *)
(* calls, in any order.                                                    *)
InitStats == InitFallback /\ fallbacks = fallbacksShipped

Status == getStatus /\ UNCHANGED <<svars, cvars>>

NextStats == Fallback \/ Status

SpecStats == InitStats /\ [][NextStats]_vars

(* Recovery actions: rotateMethod and delayedRetry are applied to the      *)
(* parameters executeStrategy hands them: the context of a call, with the  *)
(* channel that failed (context.method, NoMethod when it is not given),     *)
(* and the analysis of the call's error text.                              *)
InitActions ==
    /\ ServerIdle
    /\ enabled \in EnabledConfigs
    /\ twilioClient = TRUE /\ emailTransporter = TRUE /\ defaultEmail = TRUE
    /\ fallbacks = fallbacksShipped
    /\ Constructed
    /\ last = NoCall
    /\ \E error \in ErrorTexts, context \in Contexts,
          method \in MethodInputs \cup {NoMethod} :
          freply = [NoFallbackCall EXCEPT
                       !.error = error,
                       !.context = [attempts |-> context.attempts,
                                    timeSinceStart |-> context.timeSinceStart,
                                    method |-> method],
                       !.analysis = analyzeError(error, context)]

Rotate ==
    /\ UNCHANGED <<svars, cvars>>
    /\ freply.op = "none"
    /\ freply' = [freply EXCEPT !.op = "rotateMethod",
                                !.executed = <<"rotateMethod">>,
                                !.result = rotateMethod(freply.context)]
    /\ UNCHANGED <<pvars, fallbacks, fstats>>

Retry ==
    /\ UNCHANGED <<svars, cvars>>
    /\ freply.op = "none"
    /\ freply' = [freply EXCEPT !.op = "delayedRetry",
                                !.executed = <<"delayedRetry">>,
                                !.result = delayedRetry(freply.analysis)]
    /\ UNCHANGED <<pvars, fallbacks, fstats>>

NextActions == Rotate \/ Retry

SpecActions == InitActions /\ [][NextActions]_vars

(* Two sessions, each with its own phone, issue and submit codes and check *)
(* the rate limit in any order, while time passes.                          *)
SessionMethods == {"code", "backup"}

SessionCalls == stats.totalAttempts + stats.successful + stats.failed

SessionIssue ==
    \E s \in Sessions, m \in SessionMethods :
        /\ UNCHANGED <<svars, cvars>>
        /\ SessionCalls < MaxSessionCalls
        /\ generatePairingCode(PhoneOf(s), s, m, {})

\* codes are submitted on keys a code was issued for
SessionVerify ==
    \E s \in Sessions, m \in SessionMethods :
      \E c \in CodeSamples(m) :
        /\ UNCHANGED <<svars, cvars>>
        /\ SessionCalls < MaxSessionCalls
        /\ pairing[s][m] # None
        /\ verifyPairingCode(s, c, m)

\* a first rate check of a phone
SessionRate ==
    \E p \in Phones :
        /\ UNCHANGED <<svars, cvars>>
        /\ rate[p]["code"] = None
        /\ canAttemptPairing(p, "code")

SessionTick == now < MaxSessionTime /\ Tick

NextSessions == SessionIssue \/ SessionVerify \/ SessionRate \/ SessionTick

SpecSessions == InitConfigured /\ [][NextSessions]_vars

(* Display form: formatCode applied to the codes the generators can        *)
(* produce.  The digits and bytes are drawn from samples that include the   *)
(* extremes.                                                                *)
SampleDigits == {"0", "1", "9"}
SampleBytes == { <<"0", "0">>, <<"0", "F">>, <<"A", "9">>, <<"F", "F">> }

\* crypto.randomInt(10 ^ (n - 1), 10 ^ n - 1).toString(): n digits, the first
\* of them not 0
randomIntDigits(n) ==
    { c \in [1..n -> SampleDigits] : c[1] # "0" }

\* crypto.randomBytes(n).toString('hex').toUpperCase(): two characters a byte
randomBytesHex(n) ==
    { [i \in 1..(2 * n) |-> b[(i + 1) \div 2][2 - (i % 2)]] :
         b \in [1..n -> SampleBytes] }

\* generateWhatsAppCode: 8 digits; generateSMSCode, generateCallCode and
\* generateEmailCode: 6 digits; generateBackupCode: 6 bytes
codeDigits == 8
shortCodeDigits == 6
backupBytes == 6

GeneratedCodes(m) ==
    CASE m = "code" -> randomIntDigits(codeDigits)
      [] m \in {"sms", "call", "email"} -> randomIntDigits(shortCodeDigits)
      [] m = "backup" -> randomBytesHex(backupBytes)

InitFormat ==
    /\ ServerIdle
    /\ ShippedConfigured
    /\ Constructed
    /\ freply = NoFallbackCall
    /\ \E m \in Methods : \E c \in GeneratedCodes(m) :
          last = [NoCall EXCEPT !.op = "generator", !.method = m,
                                !.resMethod = m, !.code = c]

\* the formattedCode field of the response of generatePairingCode
Format ==
    /\ UNCHANGED <<svars, cvars>>
    /\ last.op = "generator"
    /\ last' = [last EXCEPT !.op = "format",
                            !.formattedCode = formatCode(last.code, last.resMethod)]
    /\ UNCHANGED <<now, config, pairing, attempts, rate, backupStore, stats,
                   wrongs, allowedAt, fvars>>

NextFormat == Format

SpecFormat == InitFormat /\ [][NextFormat]_vars

(* Recovery codes: the session requests codes on the sms and the backup    *)
(* channel, and regenerateCode and useBackupCode are applied for it.       *)
recoveryBackupBytes == 8

\* the codes useBackupCode draws from: one sample byte, recoveryBackupBytes
\* times over
RecoveryBackupCodes ==
    { [i \in 1..(2 * recoveryBackupBytes) |-> b[2 - (i % 2)]] : b \in SampleBytes }

RecoverIssue ==
    \E m \in {"sms", "backup"} :
        /\ UNCHANGED <<svars, cvars>>
        /\ stats.totalAttempts < MaxRecoverIssues
        /\ generatePairingCode(PhoneOf(TestSession), TestSession, m, {})

Regenerate ==
    \E newCode \in CodeSamples("sms") :
        /\ UNCHANGED <<svars, cvars>>
        /\ freply' = [NoFallbackCall EXCEPT
                         !.op = "regenerateCode", !.sessionId = TestSession,
                         !.executed = <<"regenerateCode">>,
                         !.success = TRUE,
                         !.result = regenerateCode(newCode)]
        /\ UNCHANGED <<pvars, fallbacks, fstats>>

UseBackup ==
    \E backupCode \in RecoveryBackupCodes :
        /\ UNCHANGED <<svars, cvars>>
        /\ freply' = [NoFallbackCall EXCEPT
                         !.op = "useBackupCode", !.sessionId = TestSession,
                         !.executed = <<"useBackupCode">>,
                         !.success = TRUE,
                         !.result = useBackupCode(backupCode)]
        /\ UNCHANGED <<pvars, fallbacks, fstats>>

NextRecover == RecoverIssue \/ Regenerate \/ UseBackup

SpecRecover == InitConfigured /\ [][NextRecover]_vars

(* Session store: the sessions saved by an earlier run are on disk, some of *)
(* them expired since; loadSessions, started by the constructor, reads     *)
(* them one directory at a time while sessions are created, deleted and    *)
(* cleaned up and the clock advances past the expiry of a session.         *)
\* a session saved by an earlier run: expired before this start, or not yet
SavedSessions ==
    { [status |-> "pending", expiresAt |-> -1],
      [status |-> "active", expiresAt |-> sessionTTL] }

InitStore ==
    /\ ShippedConfigured
    /\ Constructed
    /\ last = NoCall
    /\ freply = NoFallbackCall
    /\ sessions = [s \in Sessions |-> NoSession]
    /\ disk \in [Sessions -> SavedSessions \cup {NoSession}]
    /\ sstats = NoSessionStats
    /\ loading = {s \in Sessions : disk[s] # NoSession}
    /\ response = NoResponse
    /\ client = NewClient

\* one iteration of the loop of loadSessions: a directory whose
\* session-info.json exists is read and counted as expired or active
LoadSession ==
    \E dir \in loading :
        /\ loading' = loading \ {dir}
        /\ IF disk[dir] # NoSession
           THEN /\ sessions' = [sessions EXCEPT ![dir] = disk[dir]]
                /\ sstats' = IF isSessionExpired(disk[dir])
                             THEN [sstats EXCEPT !.totalCreated = @ + 1,
                                                 !.expiredSessions = @ + 1]
                             ELSE [sstats EXCEPT !.totalCreated = @ + 1,
                                                 !.activeSessions = @ + 1]
           ELSE UNCHANGED <<sessions, sstats>>
        /\ UNCHANGED <<pvars, fvars, disk, response, cvars>>

\* createSession(data) with data.id = sessionId and data.expiresAt = expiresAt:
\* the session is stored as pending, counted and saved
createSession(sessionId, expiresAt) ==
    LET session == [status |-> "pending", expiresAt |-> expiresAt]
    IN  /\ sessions' = [sessions EXCEPT ![sessionId] = session]
        /\ sstats' = [sstats EXCEPT !.totalCreated = @ + 1,
                                    !.activeSessions = @ + 1]
        /\ disk' = [disk EXCEPT ![sessionId] = session]

\* the ids are drawn at random from 2^64 values: a new session gets an id
\* that is neither in the store nor on disk
FreshIds == {s \in Sessions : sessions[s] = NoSession /\ disk[s] = NoSession}

CreateSession ==
    \E s \in FreshIds :
        /\ sstats.totalCreated < MaxCreated
        /\ createSession(s, now + sessionTTL)
        /\ UNCHANGED <<pvars, fvars, loading, response, cvars>>

DeleteSession ==
    \E s \in Sessions :
      \E after \in {deleteSession([sessions |-> sessions, disk |-> disk,
                                    stats |-> sstats], s)} :
        /\ sessions' = after.sessions
        /\ disk' = after.disk
        /\ sstats' = after.stats
        /\ UNCHANGED <<pvars, fvars, loading, response, cvars>>

CleanupExpired ==
    \E after \in {cleanupExpiredSessions([sessions |-> sessions, disk |-> disk,
                                           stats |-> sstats])} :
        /\ sessions' = after.sessions
        /\ disk' = after.disk
        /\ sstats' = after.stats
        /\ UNCHANGED <<pvars, fvars, loading, response, cvars>>

StoreTick == Advance(StoreStep, MaxStoreTime) /\ UNCHANGED <<svars, cvars>>

NextStore ==
    LoadSession \/ CreateSession \/ DeleteSession \/ CleanupExpired \/ StoreTick

SpecStore == InitStore /\ [][NextStore]_vars

(* Verify endpoint: sessions are generated with a primary code, codes are  *)
(* submitted to the verify endpoint for any session id, with every way the *)
(* connection may end, and the clock advances past the expiry of a code.   *)
\* whatsappService.connectSession resolves with success true or false, or rejects
connectSession == {"connected", "failed", "throw"}

\* whatsappService.createSessionFiles resolves or rejects
createSessionFiles == {"ok", "throw"}

\* fallbackHandler.verifyFallback(...): FallbackHandler defines no such
\* method, the call raises a TypeError
verifyFallback == "throw"

\* (mutation of verifyRequest: the connection is started whatever the
\* verification said)
verifyRequest_Unverified(verified, connection, files) ==
    CASE connection = "connected" ->
           [status |-> IF files = "ok" THEN 200 ELSE 500,
            error |-> IF files = "ok" THEN "" ELSE "VERIFICATION_FAILED",
            connection |-> connection, activate |-> TRUE]
      [] connection = "failed" ->
           [status |-> 500, error |-> "CONNECTION_FAILED",
            connection |-> connection, activate |-> FALSE]
      [] connection = "throw" ->
           [status |-> 500, error |-> "VERIFICATION_FAILED",
            connection |-> connection, activate |-> FALSE]

\* the verify endpoint once the session was found: what the request does
\* after verifyPairingCode answered (verified: verification.success)
verifyRequest(verified, connection, files) ==
    IF ~verified
    THEN IF verifyFallback = "throw"
         THEN \* the handler's catch block answers
              [status |-> 500, error |-> "VERIFICATION_FAILED",
               connection |-> "none", activate |-> FALSE]
         ELSE [status |-> 400, error |-> "INVALID_CODE", connection |-> "none",
               activate |-> FALSE]
    ELSE CASE connection = "connected" ->
                [status |-> IF files = "ok" THEN 200 ELSE 500,
                 error |-> IF files = "ok" THEN "" ELSE "VERIFICATION_FAILED",
                 connection |-> connection, activate |-> TRUE]
           [] connection = "failed" ->
                [status |-> 500, error |-> "CONNECTION_FAILED",
                 connection |-> connection, activate |-> FALSE]
           [] connection = "throw" ->
                [status |-> 500, error |-> "VERIFICATION_FAILED",
                 connection |-> connection, activate |-> FALSE]

\* POST /api/v1/generate: the session is created and a primary code issued
Generate ==
    \E s \in FreshIds :
        /\ sstats.totalCreated < MaxGenerated
        /\ createSession(s, now + sessionTTL)
        /\ generatePairingCode(PhoneOf(s), s, "code", {})
        /\ UNCHANGED <<loading, response, cvars>>

\* POST /api/v1/verify with sessionId, pairingCode and method
VerifyRequest ==
    \E s \in Sessions, c \in SubmittedCodes("code") :
      \E connection \in connectSession, files \in createSessionFiles :
        LET request == [NoResponse EXCEPT !.op = "verify", !.sessionId = s,
                                          !.code = c, !.method = "code",
                                          !.request = response.request + 1]
            verified == verifyOutcome(s, c, "code") = "OK"
            path == verifyRequest(verified, connection, files)
        IN  /\ response.request < MaxRequests
            /\ IF getSession(s) = NoSession
               THEN /\ response' = [request EXCEPT
                                       !.status = 404,
                                       !.error = "SESSION_NOT_FOUND"]
                    /\ UNCHANGED <<pvars, fvars, sessions, disk>>
               ELSE /\ verifyPairingCode(s, c, "code")
                    /\ response' = [request EXCEPT
                                       !.status = path.status,
                                       !.error = path.error,
                                       !.verified = verified,
                                       !.connection = path.connection]
                    /\ sessions' = IF path.activate
                                   THEN [sessions EXCEPT ![s].status = "active"]
                                   ELSE sessions
                    /\ disk' = IF path.activate
                               THEN [disk EXCEPT ![s].status = "active"]
                               ELSE disk
            /\ UNCHANGED <<sstats, loading, cvars>>

NextEndpoint == Generate \/ VerifyRequest \/ Tick

SpecEndpoint == InitConfigured /\ [][NextEndpoint]_vars

(* Protocol client: connection updates arrive in any order, 'close' with   *)
(* any disconnect status, and the reconnect timers fire at any time.       *)
\* the status of a disconnect: loggedOut, another reason, or none (undefined)
StatusCodes == {loggedOut, "connectionLost", "undefined"}

\* (mutation of schedulesReconnect: the retry count is not looked at)
schedulesReconnect_Unlimited(statusCode, retryCount) == statusCode # loggedOut

\* shouldReconnect && this.retryCount < this.options.maxRetries
schedulesReconnect(statusCode, retryCount) ==
    statusCode # loggedOut /\ retryCount < maxRetries

\* handleConnectionUpdate({ connection, lastDisconnect })
handleConnectionUpdate(connection, statusCode) ==
    LET event(scheduled) == [connection |-> connection,
                             statusCode |-> statusCode,
                             scheduled |-> scheduled]
    IN  CASE connection = "open" ->
               client' = [client EXCEPT !.isConnected = TRUE,
                                        !.isConnecting = FALSE,
                                        !.retryCount = 0,
                                        !.reconnects = @ + 1,
                                        !.sinceOpen = 0,
                                        !.event = event(FALSE)]
          [] connection = "close" ->
               IF schedulesReconnect(statusCode, client.retryCount)
               THEN client' = [client EXCEPT !.isConnected = FALSE,
                                             !.retryCount = @ + 1,
                                             !.timers = @ + 1,
                                             !.sinceOpen = @ + 1,
                                             !.closes = @ + 1,
                                             !.event = event(TRUE)]
               ELSE client' = [client EXCEPT !.isConnected = FALSE,
                                             !.closes = @ + 1,
                                             !.event = event(FALSE)]
          [] connection = "connecting" ->
               client' = [client EXCEPT !.isConnecting = TRUE,
                                        !.event = event(FALSE)]

\* reconnect(), run by a timer; loggedOutOk: sock.logout() resolves,
\* initialized: initialize() resolves
reconnect(loggedOutOk, initialized) ==
    client' =
        IF client.isConnecting
        THEN [client EXCEPT !.timers = @ - 1]
        ELSE [client EXCEPT
                 !.timers = @ - 1,
                 !.isConnected = IF loggedOutOk THEN FALSE ELSE @,
                 !.errors = IF initialized THEN @ ELSE @ + 1]

ConnectionOpen ==
    /\ client.reconnects < MaxOpens
    /\ handleConnectionUpdate("open", "undefined")
    /\ UNCHANGED <<pvars, fvars, svars>>

ConnectionClose ==
    \E statusCode \in StatusCodes :
        /\ client.closes < MaxCloses
        /\ handleConnectionUpdate("close", statusCode)
        /\ UNCHANGED <<pvars, fvars, svars>>

ConnectionConnecting ==
    /\ handleConnectionUpdate("connecting", "undefined")
    /\ UNCHANGED <<pvars, fvars, svars>>

ReconnectTimer ==
    \E loggedOutOk \in BOOLEAN, initialized \in BOOLEAN :
        /\ client.timers > 0
        /\ reconnect(loggedOutOk, initialized)
        /\ UNCHANGED <<pvars, fvars, svars>>

NextClient ==
    ConnectionOpen \/ ConnectionClose \/ ConnectionConnecting \/ ReconnectTimer

SpecClient == InitConfigured /\ [][NextClient]_vars

-----------------------------------------------------------------------------
(* Properties *)

\* a step that issues a code on method m of the test session
IssuedOn(m) ==
    /\ last'.op = "generate" /\ last'.success /\ last'.resMethod = m
    /\ <<pairing, stats>>' # <<pairing, stats>>

(* C1: a credential is single-use.  The code a generate just issued        *)
(* verifies; a verify that succeeds removes the credential, so the same     *)
(* code then fails with CODE_EXPIRED; and a submission that fails with      *)
(* CODE_EXPIRED keeps failing so until a generate issues a code on that key. *)
C1_SingleUse ==
    [][ /\ (last'.op = "generate" /\ last'.success) =>
               (verifyOutcome(TestSession, last.code, last.resMethod))' = "OK"
        /\ \A m \in Methods : \A c \in SubmittedCodes(m) :
             /\ (verifyPairingCode(TestSession, c, m) /\ last'.success) =>
                   /\ pairing'[TestSession][m] = None
                   /\ (verifyOutcome(TestSession, c, m))' = "CODE_EXPIRED"
             /\ (verifyOutcome(TestSession, c, m) = "CODE_EXPIRED" /\ ~IssuedOn(m)) =>
                   (verifyOutcome(TestSession, c, m))' = "CODE_EXPIRED"
      ]_vars

\* a first verify has succeeded and a second one, at the same time and with no
\* other code issued, has failed with CODE_EXPIRED
C1_Witness ==
    /\ last.op = "verify" /\ last.error = "CODE_EXPIRED"
    /\ stats.successful = 1 /\ stats.totalAttempts = 1 /\ now = 0

(* C2: a verify with a code other than the stored one leaves the credential *)
(* as it was, and the stored code still verifies afterwards.                *)
C2_MismatchKeepsCredential ==
    [][ \A m \in Methods : \A c \in CodeSamples(m) :
          LET e == pairing[TestSession][m]
          IN  (/\ CacheGet(e) # None
               /\ c # e.code
               /\ verifyPairingCode(TestSession, c, m)) =>
                 /\ pairing'[TestSession][m] = e
                 /\ (verifyOutcome(TestSession, e.code, m))' = "OK"
      ]_vars

(* C3: the k-th consecutive wrong submission since a credential was issued *)
(* reports remainingAttempts 3 - k (2, 1, 0) and never less than 0.         *)
C3_RemainingAttempts ==
    (last.op = "verify" /\ last.error = "INVALID_CODE") =>
        last.attemptsLeft = Max(0, maxAttempts - wrongs[last.sessionId][last.method])

(* C4: when generation on the preferred channel fails and some enabled     *)
(* channel of greater priority number can generate, the request succeeds on *)
(* the first such channel in ascending priority, with fallback = true and   *)
(* originalMethod the channel the caller asked for, and the code is stored  *)
(* under the channel that succeeded.                                        *)
LaterChannels(m) ==
    { o \in Methods : strategies[o].priority > strategies[m].priority }

C4_FallbackResult ==
    (/\ last.op = "generate"
     /\ last.method \in Methods
     /\ ~AttemptSucceeds(last.method, last.down)) =>
        LET able == { o \in LaterChannels(last.method) :
                         AttemptSucceeds(o, last.down) }
        IN  able # {} =>
              /\ last.success
              /\ last.resMethod \in able
              /\ \A o \in able :
                    strategies[last.resMethod].priority <= strategies[o].priority
              /\ last.fallback
              /\ last.originalMethod = last.method
              /\ pairing[last.sessionId][last.resMethod] # None
              /\ pairing[last.sessionId][last.resMethod].code = last.code

\* two channels in a row failed before a third one generated the code
C4_Witness ==
    /\ last.op = "generate" /\ last.success /\ last.fallback
    /\ Len(last.tried) >= 3
    /\ last.tried[1] = last.method
    /\ last.resMethod = last.tried[Len(last.tried)]

(* C5: a request for a channel ends in ALL_METHODS_FAILED only after every *)
(* enabled channel was tried and failed, and it succeeds whenever some      *)
(* enabled channel can generate.                                            *)
C5_AllTriedBeforeFailure ==
    last.op = "generate" =>
        /\ last.error = "ALL_METHODS_FAILED" =>
              \A m \in Methods : enabled[m] =>
                  /\ \E i \in 1..Len(last.tried) : last.tried[i] = m
                  /\ ~AttemptSucceeds(m, last.down)
        /\ (/\ last.method \in Methods
            /\ \E m \in Methods : AttemptSucceeds(m, last.down)) => last.success

(* C6: the sixth generate call within five minutes for one (phone, channel) *)
(* is rejected with RATE_LIMITED and a positive retryAfter, and issues no   *)
(* credential.  (All generate calls of SpecRate are for one phone on the    *)
(* primary channel, so stats.byMethod counts them.)                         *)
C6_SixthRejected ==
    (/\ last.op = "generate"
     /\ now < rateTTL
     /\ stats.byMethod[last.method] > rateLimit) =>
        /\ ~last.success
        /\ last.error = "RATE_LIMITED"
        /\ last.retryAfter > 0
        /\ last.code = <<>>

(* C7: once a generate replaces the code of a key by a different code, the *)
(* replaced code no longer verifies.                                        *)
C7_ReplacedCodeFails ==
    [][ \A m \in Methods : \A c \in CodeSamples(m) :
          (/\ IssuedOn(m)
           /\ CacheGet(pairing[TestSession][m]) # None
           /\ pairing[TestSession][m].code = c
           /\ pairing'[TestSession][m].code # c) =>
              (verifyOutcome(TestSession, c, m))' # "OK"
      ]_vars

(* C8: the first wrong submission after any successful generate reports    *)
(* the remainingAttempts a first wrong submission reports on a key that     *)
(* has no attempt counter.                                                  *)
C8_CounterResetOnGenerate ==
    (/\ last.op = "verify" /\ last.error = "INVALID_CODE"
     /\ wrongs[last.sessionId][last.method] = 1) =>
        last.attemptsLeft = getAttemptsLeft(None)

(* C9: on the channels with a timeout (primary 600 s, sms 300 s, call 300 s, *)
(* email 600 s) a verify later than the timeout after the code was issued   *)
(* fails with CODE_EXPIRED, whatever code is submitted.                     *)
C9_ExpiredAfterTimeout ==
    [][ \A m \in Methods \ {"backup"} : \A c \in SubmittedCodes(m) :
          (/\ verifyPairingCode(TestSession, c, m)
           /\ pairing[TestSession][m] # None
           /\ now > pairing[TestSession][m].generatedAt + strategies[m].timeout) =>
              last'.error = "CODE_EXPIRED"
      ]_vars

(* C10: a verify with the backup code that was issued last, and was neither *)
(* consumed nor replaced since, succeeds however long ago it was issued.    *)
C10_BackupNeverExpires ==
    [][ \A c \in SubmittedCodes("backup") :
          (/\ verifyPairingCode(TestSession, c, "backup")
           /\ pairing[TestSession]["backup"] # None
           /\ pairing[TestSession]["backup"].code = c) =>
              last'.success
      ]_vars

\* the characters a code consists of; everything else is formatting
HexLetters == {"A", "B", "C", "D", "E", "F"}
IsAlphanumeric(ch) == ch \in DigitChars \cup HexLetters
StripFormatting(code) == SelectSeq(code, IsAlphanumeric)

(* C11: a verify against a live credential succeeds exactly when the        *)
(* submitted code and the stored code are equal once the characters that   *)
(* are neither letters nor digits are removed from both.                    *)
C11_MatchIffEqualNormalised ==
    [][ \A m \in Methods : \A c \in SubmittedCodes(m) :
          (/\ CacheGet(pairing[TestSession][m]) # None
           /\ verifyPairingCode(TestSession, c, m)) =>
              (last'.success <=>
                 StripFormatting(c) = StripFormatting(pairing[TestSession][m].code))
      ]_vars

\* XXXX-XXXX... : groups of alphanumerics of the given sizes, joined by dashes
RECURSIVE MatchesGroups(_, _)
MatchesGroups(text, sizes) ==
    IF sizes = <<>> THEN text = <<>>
    ELSE /\ Len(text) >= sizes[1]
         /\ \A i \in 1..sizes[1] : IsAlphanumeric(text[i])
         /\ IF Len(sizes) = 1 THEN Len(text) = sizes[1]
            ELSE /\ Len(text) > sizes[1]
                 /\ text[sizes[1] + 1] = "-"
                 /\ MatchesGroups(SubSeq(text, sizes[1] + 2, Len(text)), Tail(sizes))

AllDigitsOrDash(text) == \A i \in 1..Len(text) : IsDigit(text[i]) \/ text[i] = "-"

(* C12: the display form of a generated code is NNNN-NNNN on the primary   *)
(* channel, NNN-NNN on sms, call and email, XXXX-XXXX-XXXX on backup.       *)
C12_DisplayPattern ==
    last.op = "format" =>
        CASE last.resMethod = "code" ->
               MatchesGroups(last.formattedCode, <<4, 4>>)
                 /\ AllDigitsOrDash(last.formattedCode)
          [] last.resMethod \in {"sms", "call", "email"} ->
               MatchesGroups(last.formattedCode, <<3, 3>>)
                 /\ AllDigitsOrDash(last.formattedCode)
          [] last.resMethod = "backup" ->
               MatchesGroups(last.formattedCode, <<4, 4, 4>>)

\* the backup code 000FA9FFFF00 has been formatted
C12_Witness ==
    /\ last.op = "format" /\ last.resMethod = "backup"
    /\ last.code = <<"0", "0", "0", "F", "A", "9", "F", "F", "F", "F", "0", "0">>
    /\ last.formattedCode =
          <<"0", "0", "0", "F", "-", "A", "9", "F", "F", "-", "F", "F", "0", "0">>

\* the order of the severities
SeverityRank == [low |-> 1, medium |-> 2, high |-> 3, critical |-> 4]
SeverityAtLeast(a, b) ==
    /\ a \in DOMAIN SeverityRank
    /\ b \in DOMAIN SeverityRank
    /\ SeverityRank[a] >= SeverityRank[b]

\* handleFallback was called with an error text
Handled == freply.op = "handleFallback" /\ freply.error.string

(* C13: for the error text and elapsed time of a call, the severity with   *)
(* attempts = 10 is not lower than the severity with attempts = 0, and with *)
(* more than 300000 ms elapsed the severity is at least high.               *)
C13_EscalationNeverDowngrades ==
    Handled =>
        LET with(n) == analyzeError(freply.error,
                                    [freply.context EXCEPT !.attempts = n]).severity
        IN  /\ SeverityAtLeast(with(10), with(0))
            /\ freply.context.timeSinceStart > 300000 =>
                  SeverityAtLeast(
                      analyzeError(freply.error, freply.context).severity, "high")

\* the entries of a tier, tagged with it
TierEntries(type) ==
    { WithType(fallbacks[type][i], type) : i \in 1..Len(fallbacks[type]) }

\* the descriptors eligible for an analysis: automatic and emergency entries
\* whose conditions intersect the analysis's, every manual entry; manual from
\* severity high on, emergency for severity critical
Eligible(analysis) ==
    { f \in TierEntries("automatic") : f.conditions \cap analysis.conditions # {} }
      \cup (IF analysis.severity \in {"high", "critical"}
            THEN TierEntries("manual") ELSE {})
      \cup (IF analysis.severity = "critical"
            THEN { f \in TierEntries("emergency") :
                      f.conditions \cap analysis.conditions # {} }
            ELSE {})

(* C14: the descriptor a call selected is eligible, no eligible descriptor *)
(* of any tier has a lower priority number, and selecting again for the    *)
(* same analysis gives the same descriptor.                                 *)
C14_LowestPriorityAcrossTiers ==
    (Handled /\ freply.strategy # None) =>
        /\ freply.strategy \in Eligible(freply.analysis)
        /\ \A f \in Eligible(freply.analysis) :
              freply.strategy.priority <= f.priority
        /\ selectStrategy(freply.analysis) = freply.strategy

\* an emergency entry was selected although automatic or manual entries were
\* eligible too: its priority number was the lowest
C14_Witness ==
    /\ Handled /\ freply.strategy # None
    /\ freply.strategy.type = "emergency"
    /\ \E f \in Eligible(freply.analysis) : f.type = "manual"

\* the emergency actions a call with escalation outcomes esc runs: up to the
\* first that succeeds
FirstOk(esc) ==
    IF \E i \in 1..3 : esc[i] = "ok"
    THEN CHOOSE i \in 1..3 : esc[i] = "ok" /\ \A j \in 1..(i - 1) : esc[j] # "ok"
    ELSE 0

(* C15: when the action of the selected strategy returns success = false   *)
(* and the severity is critical, new session, support ticket and system    *)
(* reset are tried in this order up to the first that succeeds; when none   *)
(* does the result is CRITICAL_FAILURE with the support contact.            *)
C15_CriticalEscalation ==
    (/\ Handled
     /\ analyzeError(freply.error, freply.context).severity = "critical"
     /\ selectStrategy(analyzeError(freply.error, freply.context)) # None
     /\ freply.exec = "fail") =>
        LET order == <<"createNewSession", "contactSupport", "systemReset">>
            names == <<"force_new_session", "support_escalation", "system_reset">>
            k == FirstOk(freply.esc)
        IN  /\ Len(freply.executed) >= 1
            /\ Tail(freply.executed) = SubSeq(order, 1, IF k = 0 THEN 3 ELSE k)
            /\ k # 0 => /\ freply.success /\ freply.emergency
                        /\ freply.action = names[k]
            /\ k = 0 => /\ ~freply.success
                        /\ freply.errorCode = "CRITICAL_FAILURE"
                        /\ freply.supportContact

\* the new session threw, the ticket failed, and the reset resolved the call
C15_Witness ==
    /\ Handled /\ freply.emergency
    /\ freply.esc = <<"throw", "fail", "ok">>
    /\ freply.action = "system_reset"

C18_NoFallbackAvailable ==
    (Handled /\ Eligible(analyzeError(freply.error, freply.context)) = {}) =>
        /\ ~freply.success
        /\ freply.errorCode = "NO_FALLBACK_AVAILABLE"
        /\ freply.executed = <<>>

\* a text without any keyword, with the shipped catalog
C18_Witness ==
    /\ Handled /\ fallbacks = fallbacksShipped
    /\ freply.error.phrases = {"hello"}
    /\ freply.errorCode = "NO_FALLBACK_AVAILABLE"

(* C19: a generate or verify for one session leaves the credentials and    *)
(* attempt counters of every other session as they were, and a rate check   *)
(* for one (phone, channel) leaves the counter of every other pair as it    *)
(* was.                                                                     *)
C19_SessionsIndependent ==
    [][ /\ \A s \in Sessions :
             (last'.op \in {"generate", "verify"} /\ last'.sessionId = s) =>
                 \A o \in Sessions \ {s} :
                     /\ pairing'[o] = pairing[o]
                     /\ attempts'[o] = attempts[o]
                     /\ backupStore'[o] = backupStore[o]
        /\ \A p \in Phones, m \in Methods :
             (last'.op = "canAttempt" /\ last'.phone = p /\ last'.method = m) =>
                 \A q \in Phones, n \in Methods :
                     <<q, n>> # <<p, m>> => rate'[q][n] = rate[q][n]
      ]_vars

\* one session's code was verified while the other session holds a code on
\* the same channel and a phone has a rate counter
C19_Witness ==
    /\ last.op = "verify" /\ last.success /\ last.sessionId = "WA_TEST1"
    /\ pairing["WA_TEST2"][last.method] # None
    /\ \E p \in Phones : rate[p]["code"] # None

(* C20: a manual entry is selected only for severity high or critical, an  *)
(* emergency entry only for severity critical.                              *)
C20_TierGating ==
    (Handled /\ freply.strategy # None) =>
        /\ freply.strategy.type = "manual" =>
              freply.analysis.severity \in {"high", "critical"}
        /\ freply.strategy.type = "emergency" =>
              freply.analysis.severity = "critical"
        /\ freply.analysis.severity \notin {"high", "critical"} =>
              freply.strategy.type = "automatic"

\* a manual entry was selected for severity high
C20_Witness ==
    /\ Handled /\ freply.strategy # None
    /\ freply.strategy.type = "manual"
    /\ freply.analysis.severity = "high"

\* the keyword table of the classifier: category, keywords, severity
KeywordTable ==
    { [errorType |-> "expired", severity |-> "medium",
       keywords |-> {"expired", "timeout", "stale"}],
      [errorType |-> "invalid", severity |-> "low",
       keywords |-> {"invalid", "wrong", "mismatch"}],
      [errorType |-> "rate_limited", severity |-> "high",
       keywords |-> {"rate limit", "too many"}],
      [errorType |-> "network", severity |-> "high",
       keywords |-> {"connection", "network", "offline"}] }
PersistentKeywords == {"all methods", "failed"}

\* the call's context has neither more than 3 attempts nor more than 300000 ms
PlainContext ==
    freply.context.attempts <= 3 /\ freply.context.timeSinceStart <= 300000

(* C21: with attempts <= 3 and at most 300000 ms elapsed, a lower-case     *)
(* text with keywords of exactly one category of the table gets that       *)
(* category's errorType and severity, and a text without any category      *)
(* keyword gets unknown and low.                                            *)
C21_KeywordCategories ==
    (Handled /\ ~freply.error.upper /\ PlainContext) =>
        LET a == analyzeError(freply.error, freply.context)
            hit == { c \in KeywordTable : c.keywords \cap freply.error.phrases # {} }
        IN  /\ \A c \in hit :
                  (hit = {c} /\ PersistentKeywords \cap freply.error.phrases = {}) =>
                      a.errorType = c.errorType /\ a.severity = c.severity
            /\ (hit = {} /\ PersistentKeywords \cap freply.error.phrases = {}) =>
                  a.errorType = "unknown" /\ a.severity = "low"

(* C22: the text of a call written in capitals and the same text written   *)
(* in lower case get the same analysis (errorType, severity, conditions)    *)
(* for the call's context.                                                  *)
C22_CaseInsensitive ==
    Handled =>
        analyzeError([freply.error EXCEPT !.upper = TRUE], freply.context)
          = analyzeError([freply.error EXCEPT !.upper = FALSE], freply.context)

(* C23: the analysis of every error text and context has an errorType among *)
(* expired, invalid, rate_limited, network, persistent, unknown and a       *)
(* severity among low, medium, high, critical.                              *)
C23_AnalysisRanges ==
    Handled =>
        LET a == analyzeError(freply.error, freply.context)
        IN  /\ a.errorType \in {"expired", "invalid", "rate_limited", "network",
                                "persistent", "unknown"}
            /\ a.severity \in {"low", "medium", "high", "critical"}

(* C24: a verify changes an attempt counter only when the key holds a live *)
(* credential and the submitted code differs from it; after a match the    *)
(* counters are as before; without a live credential the verify fails with *)
(* CODE_EXPIRED and the counters are as before, and when the key holds no   *)
(* credential at all the credentials are as before too.                     *)
C24_VerifyFrame ==
    [][ \A m \in Methods : \A c \in SubmittedCodes(m) :
          verifyPairingCode(TestSession, c, m) =>
              LET e == pairing[TestSession][m]
                  live == CacheGet(e) # None
              IN  /\ attempts' # attempts =>
                        live /\ StripFormatting(c) # StripFormatting(e.code)
                  /\ last'.success => attempts' = attempts
                  /\ ~live => /\ last'.error = "CODE_EXPIRED"
                              /\ attempts' = attempts
                  /\ e = None => pairing' = pairing
      ]_vars

\* a code was verified on a key whose attempt counter is counting
C24_Witness ==
    /\ last.op = "verify" /\ last.success
    /\ CacheGet(attempts[TestSession][last.method]) # None

\* the allowed rate checks of a pair within the preceding 5 minutes
InWindow(phone, method) ==
    Cardinality({ i \in 1..Len(allowedAt[phone][method]) :
                     now - allowedAt[phone][method][i] <= rateTTL })

(* C25: a rate check is rejected only when 5 allowed checks of the pair    *)
(* lie within the preceding 5 minutes, and an allowed check leaves at most *)
(* 5 of them within the window.                                             *)
C25_RollingWindow ==
    last.op = "canAttempt" =>
        IF last.allowed
        THEN InWindow(last.phone, last.method) <= rateLimit
        ELSE InWindow(last.phone, last.method) >= rateLimit

\* the channel after the failed one in cyclic priority order over the enabled
\* channels, the failed one left out
NextInCycle(failed) ==
    LET others == { m \in Methods \ {failed} : enabled[m] }
        later == { m \in others :
                      strategies[m].priority > strategies[failed].priority }
        first(S) == CHOOSE m \in S :
                       \A o \in S : strategies[m].priority <= strategies[o].priority
    IN  IF later # {} THEN first(later) ELSE first(others)

\* the channel a rotateMethod call takes as the failed one
FailedChannel ==
    IF freply.context.method = NoMethod THEN "code" ELSE freply.context.method

(* C26: rotateMethod returns the enabled channel that follows the failed   *)
(* channel in cyclic priority order: not the failed channel, not a         *)
(* disabled one.                                                            *)
C26_RotateNextEnabled ==
    (freply.op = "rotateMethod" /\ FailedChannel \in Methods) =>
        /\ freply.result.newMethod # FailedChannel
        /\ enabled[freply.result.newMethod]
        /\ freply.result.newMethod = NextInCycle(FailedChannel)

(* C27: delayedRetry gives 1, 5, 15, 60 minutes for low, medium, high,     *)
(* critical, a higher severity never gets a shorter delay, the retry time  *)
(* it returns lies in the future, and the call changes nothing else.       *)
C27_DelayMonotonic ==
    [][ Retry =>
          LET delay(sev) == delayedRetry([freply.analysis EXCEPT
                                             !.severity = sev]).delayMinutes
              table == [low |-> 1, medium |-> 5, high |-> 15, critical |-> 60]
          IN  /\ \A sev \in DOMAIN table : delay(sev) = table[sev]
              /\ \A lo, hi \in DOMAIN SeverityRank :
                    SeverityRank[lo] <= SeverityRank[hi] => delay(lo) <= delay(hi)
              /\ freply.analysis.severity \in DOMAIN table =>
                    freply'.result.delayMinutes = table[freply.analysis.severity]
              /\ freply'.result.retryTime > now
              /\ freply'.result.retryTime = now + freply'.result.delayMinutes * 60
              /\ UNCHANGED <<pvars, fallbacks, fstats>>
      ]_vars

\* a retry was scheduled for an analysis of severity critical
C27_Witness ==
    /\ freply.op = "delayedRetry"
    /\ freply.analysis.severity = "critical"
    /\ freply.result.delayMinutes = 60

(* C28: no counter of the fallback statistics (total, successful, failed,  *)
(* each per-type count, the number of response-time samples) ever          *)
(* decreases in a handleFallback or getStatus call.                         *)
C28_CountersNeverDecrease ==
    [][ /\ fstats'.totalFallbacks >= fstats.totalFallbacks
        /\ fstats'.successfulFallbacks >= fstats.successfulFallbacks
        /\ fstats'.failedFallbacks >= fstats.failedFallbacks
        /\ fstats'.responseTimes >= fstats.responseTimes
        /\ \A type \in DOMAIN fstats.byType :
              fstats'.byType[type] >= fstats.byType[type]
      ]_vars

\* the status was read after a fallback that succeeded and one that failed
C28_Witness ==
    /\ freply.op = "getStatus"
    /\ fstats.successfulFallbacks >= 1 /\ fstats.failedFallbacks >= 1
    /\ fstats.responseTimes >= 2

(* C29: successful + failed never exceeds total; the success rate getStatus *)
(* returns lies between 0 and 100 and is 0 while no fallback has run; the   *)
(* counters after a getStatus are the ones it read.                         *)
C29_SuccessRateBounds ==
    /\ fstats.successfulFallbacks + fstats.failedFallbacks <= fstats.totalFallbacks
    /\ freply.op = "getStatus" =>
          /\ freply.result.successRate \in 0..100
          /\ fstats.totalFallbacks = 0 => freply.result.successRate = 0
          /\ freply.result.stats = fstats

\* the status after one successful and one failed fallback: 50 per cent
C29_Witness ==
    /\ freply.op = "getStatus"
    /\ fstats.totalFallbacks = 2 /\ fstats.successfulFallbacks = 1
    /\ freply.result.successRate = 50

(* C30: a handleFallback call runs at most the action of the one strategy  *)
(* it selected and then, only after that action failed on a critical       *)
(* failure, the emergency actions in their order, each at most once; it    *)
(* ends with a result that is a success, a failure of the action, or one   *)
(* of the terminal error codes.                                            *)
C30_ForwardOnly ==
    Handled =>
        LET selected == selectStrategy(analyzeError(freply.error, freply.context))
            order == [i \in 1..Len(emergencyActions) |-> emergencyActions[i].execute]
            ran == freply.executed
        IN  /\ Len(ran) <= 1 + Len(emergencyActions)
            /\ selected = None => ran = <<>>
            /\ selected # None =>
                  /\ Len(ran) >= 1
                  /\ ran[1] = actionMethod[selected.action]
                  /\ Tail(ran) = SubSeq(order, 1, Len(ran) - 1)
                  /\ Len(ran) > 1 =>
                        /\ freply.exec = "fail"
                        /\ analyzeError(freply.error, freply.context).severity
                              = "critical"
            /\ \/ freply.success
               \/ freply.errorCode \in {"NO_FALLBACK_AVAILABLE", "CRITICAL_FAILURE",
                                        "FALLBACK_HANDLER_ERROR"}
               \/ freply.exec = "fail" /\ freply.result # None /\ Len(ran) = 1

\* a call ran the selected action and all three emergency actions
C30_Witness ==
    /\ Handled
    /\ Len(freply.executed) = 4
    /\ freply.errorCode = "CRITICAL_FAILURE"

(* C31: with the shipped catalog no call selects an emergency entry, and   *)
(* for a critical failure the selected entry is backup_codes or an         *)
(* automatic entry; the actions of the emergency entries are not the       *)
(* selected action of any call.                                             *)
C31_ShippedNeverEmergency ==
    (Handled /\ fallbacks = fallbacksShipped /\ freply.executed # <<>>) =>
        LET selected == selectStrategy(analyzeError(freply.error, freply.context))
        IN  /\ selected.type # "emergency"
            /\ selected.id \notin {"new_session", "device_switch", "time_delay"}
            /\ freply.executed[1] \notin
                  {"createNewSession", "switchDevice", "delayedRetry"}
            /\ analyzeError(freply.error, freply.context).severity = "critical" =>
                  \/ selected.type = "automatic"
                  \/ selected.id = "backup_codes" /\ selected.priority = 4

\* a critical failure on the shipped catalog for which the emergency entry
\* new_session is eligible, and backup_codes was selected
C31_Witness ==
    /\ Handled /\ fallbacks = fallbacksShipped
    /\ freply.strategy # None
    /\ freply.analysis.severity = "critical"
    /\ freply.strategy.id = "backup_codes"
    /\ \E f \in Eligible(freply.analysis) : f.id = "new_session"

C34_OneConcurrentSuccess ==
    [][ /\ \A m \in Methods : \A c \in SubmittedCodes(m) :
             (/\ last.op = "verify" /\ last.method = m
              /\ last.success \/ last.error = "CODE_EXPIRED"
              /\ verifyPairingCode(TestSession, c, m)) =>
                 ~last'.success /\ last'.error = "CODE_EXPIRED"
        /\ stats'.successful <= stats'.totalAttempts
      ]_vars

\* a verify found the credential consumed by an earlier successful verify,
\* before any time passed
C34_Witness ==
    /\ last.op = "verify" /\ last.error = "CODE_EXPIRED"
    /\ stats.successful >= 1
    /\ now = 0

(* C35: when a generate succeeds through a fallback, the credential is     *)
(* stored live under the channel that generated it, with the returned code *)
(* (so a verify of that code on that channel matches), and the credentials *)
(* of the channels that failed during the request are as they were before. *)
C35_FallbackStorage ==
    [][ (last'.op = "generate" /\ last'.success /\ last'.fallback) =>
          LET s == last'.sessionId
              n == Len(last'.tried)
              failedChannels == { last'.tried[i] : i \in 1..(n - 1) } \cap Methods
          IN  /\ last'.resMethod = last'.tried[n]
              /\ pairing'[s][last'.resMethod] # None
              /\ pairing'[s][last'.resMethod].code = last'.code
              /\ \/ pairing'[s][last'.resMethod].t = 0
                 \/ pairing'[s][last'.resMethod].t >= now'
              /\ StripNonDigits(last'.code)
                    = StripNonDigits(pairing'[s][last'.resMethod].code)
              /\ \A f \in failedChannels : pairing'[s][f] = pairing[s][f]
      ]_vars

\* a request succeeded through a fallback while a channel that failed in it
\* still holds the code of an earlier request
C35_Witness ==
    /\ last.op = "generate" /\ last.success /\ last.fallback
    /\ \E i \in 1..(Len(last.tried) - 1) :
          /\ last.tried[i] \in Methods
          /\ pairing[last.sessionId][last.tried[i]] # None

\* upper-case hexadecimal characters
IsHex(ch) == IsDigit(ch) \/ ch \in HexLetters

(* C36: the code a successful regenerateCode returns verifies for the      *)
(* session on a numeric channel, the code a successful useBackupCode       *)
(* returns verifies on the backup channel, and that backup code has 12     *)
(* hexadecimal characters.                                                  *)
C36_RecoveryCodeLive ==
    /\ (freply.op = "regenerateCode" /\ freply.result.success) =>
          \E m \in {"code", "sms", "call", "email"} :
             verifyOutcome(freply.sessionId, freply.result.newCode, m) = "OK"
    /\ (freply.op = "useBackupCode" /\ freply.result.success) =>
          /\ verifyOutcome(freply.sessionId, freply.result.backupCode, "backup") = "OK"
          /\ Len(freply.result.backupCode) = 12
          /\ \A i \in 1..Len(freply.result.backupCode) :
                IsHex(freply.result.backupCode[i])

C39_ReconnectBudget ==
    /\ [](client.retryCount <= maxRetries /\ client.sinceOpen <= maxRetries)
    /\ [][ /\ (client'.closes = client.closes + 1)
              => ((client'.timers = client.timers + 1)
                  <=> (/\ client'.event.statusCode # loggedOut
                       /\ client.retryCount < maxRetries))
           /\ (client'.reconnects = client.reconnects + 1)
              => client'.retryCount = 0
           /\ (client'.timers > client.timers)
              => client'.closes = client.closes + 1
         ]_vars

\* the retries are used up and a 'close' that could be retried scheduled
\* nothing
C39_Witness ==
    /\ client.retryCount = maxRetries
    /\ client.event.connection = "close"
    /\ client.event.statusCode = "connectionLost"
    /\ ~client.event.scheduled

(* C40: stats.activeSessions of the session store is never negative and    *)
(* never exceeds the number of sessions in the store.                       *)
C40_ActiveWithinStore ==
    /\ sstats.activeSessions >= 0
    /\ sstats.activeSessions <= sessionCount(sessions)

=============================================================================
